---- MODULE Spec2Model ----
(***************************************************************************)
(* Model of src/detection.py: the two FastAPI route handlers               *)
(* detect_object (POST /detect) and analyze_object (POST /analyze), the    *)
(* temporary file they stage, the upstream calls they make and the JSON    *)
(* parsing / rendering of the upstream text.                               *)
(***************************************************************************)
EXTENDS Integers, Sequences, FiniteSets, TLC

\* ------------------------------------------------------------------------
\* Bounds
\* ------------------------------------------------------------------------

\* number of requests served one after the other in a behaviour
MaxRequests == 2

\* ------------------------------------------------------------------------
\* JSON values (what json.loads returns), tagged so that values of
\* different Python types can be compared
\* ------------------------------------------------------------------------

JStr(s) == [t |-> "str", v |-> s]

JNum(s) == [t |-> "num", v |-> s]

JNaN == [t |-> "num", v |-> "NaN"]

JNull == [t |-> "null", v |-> "null"]

JArr(elems) == [t |-> "arr", v |-> elems]

\* a dict: the sequence of its <<key, value>> items in insertion order
JObj(items) == [t |-> "obj", v |-> items]

\* key in d
HasKey(d, key) == \E i \in 1..Len(d.v) : d.v[i][1] = key

\* d[key], for a key that is present
GetKey(d, key) == d.v[CHOOSE i \in 1..Len(d.v) : d.v[i][1] = key][2]

\* d[key] = val on the item list of a dict: a repeated key keeps its place
\* and takes the last value
DictSet(items, key, val) ==
  IF \E i \in 1..Len(items) : items[i][1] = key
  THEN [i \in 1..Len(items) |->
          IF items[i][1] = key THEN <<key, val>> ELSE items[i]]
  ELSE Append(items, <<key, val>>)

\* ------------------------------------------------------------------------
\* Text: a sequence of lexical tokens
\* ------------------------------------------------------------------------

\* punctuation
P(c) == [k |-> "punct", s |-> c]

\* a double-quoted string literal
Q(s) == [k |-> "string", s |-> s]

\* a bare word: a number, a constant, or prose
W(s) == [k |-> "word", s |-> s]

\* bare words the decoder reads as numbers
NumberWords == {"1", "0.5"}

\* ------------------------------------------------------------------------
\* json.loads
\* ------------------------------------------------------------------------

ParseOk(val, pos) == [ok |-> TRUE, val |-> val, pos |-> pos]

ParseFail == [ok |-> FALSE, val |-> JNull, pos |-> 0]

TokAt(toks, i, tk) == i <= Len(toks) /\ toks[i] = tk

RECURSIVE ParseValue(_, _)
RECURSIVE ParseElems(_, _, _)
RECURSIVE ParseMembers(_, _, _)

\* the elements of an array after "[" (at least one element), up to "]"
ParseElems(toks, i, acc) ==
  LET r == ParseValue(toks, i) IN
  IF ~r.ok THEN ParseFail
  ELSE IF TokAt(toks, r.pos, P(","))
       THEN ParseElems(toks, r.pos + 1, Append(acc, r.val))
       ELSE IF TokAt(toks, r.pos, P("]"))
            THEN ParseOk(JArr(Append(acc, r.val)), r.pos + 1)
            ELSE ParseFail

\* the members of an object after "{" (at least one member), up to "}"
ParseMembers(toks, i, acc) ==
  IF ~(i + 1 <= Len(toks) /\ toks[i].k = "string" /\ toks[i + 1] = P(":"))
  THEN ParseFail
  ELSE LET r == ParseValue(toks, i + 2) IN
       IF ~r.ok THEN ParseFail
       ELSE IF TokAt(toks, r.pos, P(","))
            THEN ParseMembers(toks, r.pos + 1, DictSet(acc, toks[i].s, r.val))
            ELSE IF TokAt(toks, r.pos, P("}"))
                 THEN ParseOk(JObj(DictSet(acc, toks[i].s, r.val)), r.pos + 1)
                 ELSE ParseFail

\* one JSON value starting at token i
ParseValue(toks, i) ==
  IF i > Len(toks) THEN ParseFail
  ELSE LET tk == toks[i] IN
       IF tk.k = "string" THEN ParseOk(JStr(tk.s), i + 1)
       ELSE IF tk.k = "word"
       THEN IF tk.s = "NaN" THEN ParseOk(JNaN, i + 1)
            ELSE IF tk.s = "null" THEN ParseOk(JNull, i + 1)
            ELSE IF tk.s \in NumberWords THEN ParseOk(JNum(tk.s), i + 1)
            ELSE ParseFail
       ELSE IF tk = P("[")
       THEN IF TokAt(toks, i + 1, P("]")) THEN ParseOk(JArr(<<>>), i + 2)
            ELSE ParseElems(toks, i + 1, <<>>)
       ELSE IF tk = P("{")
       THEN IF TokAt(toks, i + 1, P("}")) THEN ParseOk(JObj(<<>>), i + 2)
            ELSE ParseMembers(toks, i + 1, <<>>)
       ELSE ParseFail

\* json.loads(text): the parsed value, or JSONDecodeError when there is no
\* value or there is data after it
json_loads(text) ==
  LET r == ParseValue(text, 1) IN
  IF r.ok /\ r.pos = Len(text) + 1
  THEN [ok |-> TRUE, val |-> r.val]
  ELSE [ok |-> FALSE, val |-> JNull]

\* ------------------------------------------------------------------------
\* JSONResponse rendering: json.dumps(content, allow_nan=False)
\* ------------------------------------------------------------------------

RECURSIVE HasNaN(_)
HasNaN(val) ==
  IF val.t = "num" THEN val.v = "NaN"
  ELSE IF val.t = "arr" THEN \E i \in 1..Len(val.v) : HasNaN(val.v[i])
  ELSE IF val.t = "obj" THEN \E i \in 1..Len(val.v) : HasNaN(val.v[i][2])
  ELSE FALSE

RECURSIVE json_dumps(_)
RECURSIVE DumpElems(_, _)
RECURSIVE DumpMembers(_, _)

DumpElems(elems, i) ==
  IF i > Len(elems) THEN <<>>
  ELSE (IF i > 1 THEN <<P(",")>> ELSE <<>>)
       \o json_dumps(elems[i]) \o DumpElems(elems, i + 1)

DumpMembers(items, i) ==
  IF i > Len(items) THEN <<>>
  ELSE (IF i > 1 THEN <<P(",")>> ELSE <<>>)
       \o <<Q(items[i][1]), P(":")>> \o json_dumps(items[i][2])
       \o DumpMembers(items, i + 1)

json_dumps(val) ==
  IF val.t = "str" THEN <<Q(val.v)>>
  ELSE IF val.t = "num" THEN <<W(val.v)>>
  ELSE IF val.t = "null" THEN <<W("null")>>
  ELSE IF val.t = "arr" THEN <<P("[")>> \o DumpElems(val.v, 1) \o <<P("]")>>
  ELSE <<P("{")>> \o DumpMembers(val.v, 1) \o <<P("}")>>

\* ------------------------------------------------------------------------
\* Exceptions and handler results
\* ------------------------------------------------------------------------

Exc(type, msg) == [type |-> type, msg |-> msg]

NoExc == Exc("None", "")

\* str(e)
str(exc) == exc.msg

\* the detail of the HTTPException raised by the validation of /analyze
InvalidInputDetail == "Invalid input: 'object' and 'materials' are required."

\* HTTPException(status_code=400, detail=InvalidInputDetail)
HTTPException400 == Exc("HTTPException", "400: Invalid input: 'object' and 'materials' are required.")

\* what upload_to_gemini raises when the external service fails
UploadError == Exc("UploadError", "upload failed")

\* what model.generate_content raises when the external service fails
GenerateError == Exc("GenerateError", "generation failed")

\* what the handler hands back to the framework: nothing yet, a
\* JSONResponse, or an exception that left the handler
NoResult == [kind |-> "none", status |-> 0, body |-> <<>>, exc |-> NoExc]

\* JSONResponse(status_code=status, content=content), content renderable
JSONResponse(status, content) ==
  [kind |-> "response", status |-> status, body |-> json_dumps(content), exc |-> NoExc]

\* the exception exc propagates out of the handler
Raised(exc) == [kind |-> "raised", status |-> 0, body |-> <<>>, exc |-> exc]

\* content={"error": msg}
ErrorContent(msg) == JObj(<< <<"error", JStr(msg)>> >>)

\* ------------------------------------------------------------------------
\* Inputs: upstream texts, upstream responses, /analyze bodies
\* ------------------------------------------------------------------------

T_detection ==
  << P("{"), Q("object"), P(":"), Q("bottle"), P(","),
     Q("materials"), P(":"), P("["), Q("plastic"), P("]"), P("}") >>

T_analysis ==
  << P("{"), Q("recycling"), P(":"), P("{"), Q("steps"), P(":"),
     P("["), Q("rinse"), P(","), Q("sort"), P("]"), P("}"), P(","),
     Q("upcycling"), P(":"), W("null"), P("}") >>

T_array == << P("["), Q("plastic"), P("]") >>

T_dupkey ==
  << P("{"), Q("object"), P(":"), Q("can"), P(","),
     Q("object"), P(":"), Q("bottle"), P("}") >>

T_nan == << P("{"), Q("CO2_emissions"), P(":"), W("NaN"), P("}") >>

T_prose == << W("Here"), W("is"), P("{"), P("}") >>

T_truncated == << P("{"), Q("object"), P(":"), Q("bottle") >>

T_trailing == << P("{"), P("}"), W("done") >>

T_empty == << >>

UpstreamTexts ==
  { T_detection, T_analysis, T_array, T_dupkey, T_nan,
    T_prose, T_truncated, T_trailing, T_empty }

\* the object generate_content returns: reading .text gives the text, or
\* raises ValueError when the response carries no text part
NoResponse == [has |-> FALSE, text_ok |-> FALSE, text |-> <<>>]

Responses ==
  [has : {TRUE}, text_ok : {TRUE}, text : UpstreamTexts]
    \cup {[has |-> TRUE, text_ok |-> FALSE, text |-> <<>>]}

Absent == [t |-> "absent", v |-> "absent"]

ObjectValues == { JStr("bottle"), JNull }

MaterialsValues ==
  { JArr(<< JStr("plastic"), JStr("glass") >>), JArr(<<>>), JStr("plastic"),
    JObj(<< <<"plastic", JNum("1")>> >>),
    JNum("1"), JNull, JArr(<< JStr("plastic"), JNum("1") >>) }

\* the JSON object of the request body
Body(obj, mat) ==
  JObj( (IF obj = Absent THEN <<>> ELSE << <<"object", obj>> >>)
        \o (IF mat = Absent THEN <<>> ELSE << <<"materials", mat>> >>) )

\* ------------------------------------------------------------------------
\* Helpers of the handlers
\* ------------------------------------------------------------------------

\* os.unlink(path) on the file system fs: FileNotFoundError when the file
\* is not there; otherwise the file is removed, unless the operating system
\* refuses (fault), and then the file stays
os_unlink(fs0, path, fault) ==
  IF path \notin fs0
  THEN [exc |-> Exc("FileNotFoundError", "No such file or directory"), fs |-> fs0]
  ELSE IF fault
       THEN [exc |-> Exc("PermissionError", "Permission denied"), fs |-> fs0]
       ELSE [exc |-> NoExc, fs |-> fs0 \ {path}]

\* all(key in object_data for key in ["object", "materials"])
HasRequiredKeys(data) == \A key \in {"object", "materials"} : HasKey(data, key)

\* ", ".join(val): the joined pieces, or TypeError when val is not an
\* iterable of strings (a str iterates its characters, atomic here; a dict
\* iterates its keys)
str_join(val) ==
  IF val.t = "str" THEN [ok |-> TRUE, parts |-> <<val.v>>]
  ELSE IF val.t = "obj"
       THEN [ok |-> TRUE, parts |-> [i \in 1..Len(val.v) |-> val.v[i][1]]]
  ELSE IF val.t = "arr" /\ \A i \in 1..Len(val.v) : val.v[i].t = "str"
       THEN [ok |-> TRUE, parts |-> [i \in 1..Len(val.v) |-> val.v[i].v]]
  ELSE [ok |-> FALSE, parts |-> <<>>]

\* one call made by the running request; onDisk: whether the temporary
\* file of the request existed when the call was made
Call(op, ok, onDisk) == [op |-> op, ok |-> ok, onDisk |-> onDisk]

\* parse_response with a local change of the parsed value: the 200 body
\* wraps it under a key "result"
parse_response_Wrapped(resp, onDisk) ==
  LET rd == Call("response.text", resp.text_ok, onDisk)
      parsed == json_loads(resp.text)
  IN IF ~resp.text_ok
     THEN [calls |-> <<rd>>,
           exc |-> Exc("ValueError", "response.text requires a valid Part"),
           result |-> NoResult]
     ELSE IF ~parsed.ok
     THEN [calls |-> <<rd, Call("json.loads", FALSE, onDisk)>>,
           exc |-> NoExc,
           result |-> JSONResponse(500, ErrorContent("Invalid JSON format in response"))]
     ELSE IF HasNaN(parsed.val)
     THEN [calls |-> <<rd, Call("json.loads", TRUE, onDisk),
                       Call("JSONResponse", FALSE, onDisk)>>,
           exc |-> Exc("ValueError", "Out of range float values are not JSON compliant"),
           result |-> NoResult]
     ELSE [calls |-> <<rd, Call("json.loads", TRUE, onDisk),
                       Call("JSONResponse", TRUE, onDisk)>>,
           exc |-> NoExc,
           result |-> JSONResponse(200, JObj(<< <<"result", parsed.val>> >>))]

\* lines 81-85 and 154-158: read response.text, json.loads it, build the
\* JSONResponse.  Gives the calls made and either the response returned
\* (exc = NoExc) or the exception that leaves the inner try: only
\* json.JSONDecodeError is caught there
parse_response(resp, onDisk) ==
  LET rd == Call("response.text", resp.text_ok, onDisk)
      parsed == json_loads(resp.text)
  IN IF ~resp.text_ok
     THEN [calls |-> <<rd>>,
           exc |-> Exc("ValueError", "response.text requires a valid Part"),
           result |-> NoResult]
     ELSE IF ~parsed.ok
     THEN [calls |-> <<rd, Call("json.loads", FALSE, onDisk)>>,
           exc |-> NoExc,
           result |-> JSONResponse(500, ErrorContent("Invalid JSON format in response"))]
     ELSE IF HasNaN(parsed.val)
     THEN [calls |-> <<rd, Call("json.loads", TRUE, onDisk),
                       Call("JSONResponse", FALSE, onDisk)>>,
           exc |-> Exc("ValueError", "Out of range float values are not JSON compliant"),
           result |-> NoResult]
     ELSE [calls |-> <<rd, Call("json.loads", TRUE, onDisk),
                       Call("JSONResponse", TRUE, onDisk)>>,
           exc |-> NoExc,
           result |-> JSONResponse(200, parsed.val)]

\* ------------------------------------------------------------------------
\* State
\* ------------------------------------------------------------------------

VARIABLES
  handler,      \* the handler running: "idle", "detect", "analyze"
  pc,           \* its position
  requests,     \* requests received so far
  fs,           \* the temporary files on disk
  temp_file,    \* the file NamedTemporaryFile created (0: none)
  temp_path,    \* local temp_path (0: not assigned)
  object_data,  \* the JSON body of /analyze
  upstream,     \* how the external service answers the calls of this request
  gemini_file,  \* TRUE once upload_to_gemini returned a handle
  prompt,       \* the values put into the impact-analysis prompt
  response,     \* what generate_content returned
  e,            \* the exception caught by "except Exception as e"
  result,       \* what the handler gave back
  calls         \* the calls the running request made, in order

vars == << handler, pc, requests, fs, temp_file, temp_path, object_data,
           upstream, gemini_file, prompt, response, e, result, calls >>

NoPrompt == [object |-> Absent, materials |-> <<>>]

\* the answers of the external service: whether genai.upload_file succeeds,
\* and what generate_content gives (NoResponse: it raises)
Upstreams == [upload_ok : BOOLEAN, generate : Responses \cup {NoResponse}]

NoUpstream == [upload_ok |-> FALSE, generate |-> NoResponse]

Init ==
  /\ handler = "idle"
  /\ pc = "idle"
  /\ requests = 0
  /\ fs = {}
  /\ temp_file = 0
  /\ temp_path = 0
  /\ object_data = JObj(<<>>)
  /\ upstream = NoUpstream
  /\ gemini_file = FALSE
  /\ prompt = NoPrompt
  /\ response = NoResponse
  /\ e = NoExc
  /\ result = NoResult
  /\ calls = <<>>

\* whether the temporary file of the running request is on disk
OnDisk == temp_file \in fs

\* ------------------------------------------------------------------------
\* POST /detect
\* ------------------------------------------------------------------------

\* a multipart upload arrives and detect_object starts
DetectRequest ==
  /\ pc = "idle"
  /\ requests < MaxRequests
  /\ requests' = requests + 1
  /\ handler' = "detect"
  /\ pc' = "stage"
  /\ upstream' \in Upstreams
  /\ UNCHANGED << fs, temp_file, temp_path, object_data, gemini_file, prompt,
                  response, e, result, calls >>

\* lines 47-49: NamedTemporaryFile(delete=False) creates a uniquely named
\* file; copyfileobj fills it or raises, outside of any try; the with block
\* closes the file and leaves it on disk
DetectStage ==
  /\ handler = "detect" /\ pc = "stage"
  /\ temp_file' = requests
  /\ fs' = fs \cup {requests}
  /\ \E copy_ok \in BOOLEAN :
       /\ calls' = Append(calls, Call("copyfileobj", copy_ok, TRUE))
       /\ IF copy_ok
          THEN /\ temp_path' = requests
               /\ pc' = "upload"
               /\ UNCHANGED result
          ELSE /\ result' = Raised(Exc("OSError", "read of the upload failed"))
               /\ pc' = "done"
               /\ UNCHANGED temp_path
  /\ UNCHANGED << handler, requests, object_data, upstream, gemini_file, prompt,
                  response, e >>

\* line 53: upload_to_gemini(temp_path, mime_type) returns a handle or raises
DetectUpload ==
  /\ handler = "detect" /\ pc = "upload"
  /\ LET ok == upstream.upload_ok IN
       /\ calls' = Append(calls, Call("upload_to_gemini", ok, OnDisk))
       /\ IF ok
          THEN /\ gemini_file' = TRUE
               /\ pc' = "generate"
               /\ UNCHANGED e
          ELSE /\ e' = UploadError
               /\ pc' = "except"
               /\ UNCHANGED gemini_file
  /\ UNCHANGED << handler, requests, fs, temp_file, temp_path, object_data,
                  upstream, prompt, response, result >>

\* line 75: model.generate_content(prompt_parts) returns a response or raises
DetectGenerate ==
  /\ handler = "detect" /\ pc = "generate"
  /\ calls' = Append(calls, Call("generate_content", upstream.generate.has, OnDisk))
  /\ IF upstream.generate.has
     THEN /\ response' = upstream.generate
          /\ pc' = "unlink"
          /\ UNCHANGED e
     ELSE /\ e' = GenerateError
          /\ pc' = "except"
          /\ UNCHANGED response
  /\ UNCHANGED << handler, requests, fs, temp_file, temp_path, object_data,
                  upstream, gemini_file, prompt, result >>

\* DetectUnlink going on to the parsing whatever os.unlink did
DetectUnlink_Swallow ==
  /\ handler = "detect" /\ pc = "unlink"
  /\ \E fault \in BOOLEAN :
       LET u == os_unlink(fs, temp_path, fault) IN
       /\ fs' = u.fs
       /\ calls' = Append(calls, Call("os.unlink", u.exc = NoExc, OnDisk))
       /\ pc' = "parse"
       /\ UNCHANGED e
  /\ UNCHANGED << handler, requests, temp_file, temp_path, object_data,
                  upstream, gemini_file, prompt, response, result >>

\* line 78: os.unlink(temp_path) inside the try
DetectUnlink ==
  /\ handler = "detect" /\ pc = "unlink"
  /\ \E fault \in BOOLEAN :
       LET u == os_unlink(fs, temp_path, fault) IN
       /\ fs' = u.fs
       /\ calls' = Append(calls, Call("os.unlink", u.exc = NoExc, OnDisk))
       /\ IF u.exc = NoExc
          THEN pc' = "parse" /\ UNCHANGED e
          ELSE pc' = "except" /\ e' = u.exc
  /\ UNCHANGED << handler, requests, temp_file, temp_path, object_data,
                  upstream, gemini_file, prompt, response, result >>

\* lines 81-85: parse the text and return, or fall to the outer except
DetectParse ==
  /\ handler = "detect" /\ pc = "parse"
  /\ LET p == parse_response(response, OnDisk) IN
       /\ calls' = calls \o p.calls
       /\ IF p.exc = NoExc
          THEN result' = p.result /\ pc' = "done" /\ UNCHANGED e
          ELSE e' = p.exc /\ pc' = "except" /\ UNCHANGED result
  /\ UNCHANGED << handler, requests, fs, temp_file, temp_path, object_data,
                  upstream, gemini_file, prompt, response >>

\* DetectExcept without the os.unlink of the error path
DetectExcept_NoCleanup ==
  /\ handler = "detect" /\ pc = "except"
  /\ result' = JSONResponse(500, ErrorContent(str(e)))
  /\ pc' = "done"
  /\ UNCHANGED << handler, requests, fs, temp_file, temp_path, object_data,
                  upstream, gemini_file, prompt, response, e, calls >>

\* lines 88-91: except Exception as e: os.unlink(temp_path), then the 500
\* response; an exception of this os.unlink leaves the handler
DetectExcept ==
  /\ handler = "detect" /\ pc = "except"
  /\ \E fault \in BOOLEAN :
       LET u == os_unlink(fs, temp_path, fault) IN
       /\ fs' = u.fs
       /\ calls' = Append(calls, Call("os.unlink", u.exc = NoExc, OnDisk))
       /\ result' = IF u.exc = NoExc
                    THEN JSONResponse(500, ErrorContent(str(e)))
                    ELSE Raised(u.exc)
  /\ pc' = "done"
  /\ UNCHANGED << handler, requests, temp_file, temp_path, object_data,
                  upstream, gemini_file, prompt, response, e >>

\* ------------------------------------------------------------------------
\* POST /analyze
\* ------------------------------------------------------------------------

\* a JSON object arrives as the body and analyze_object starts
AnalyzeRequest ==
  /\ pc = "idle"
  /\ requests < MaxRequests
  /\ requests' = requests + 1
  /\ handler' = "analyze"
  /\ pc' = "validate"
  /\ \E obj \in ObjectValues \cup {Absent}, mat \in MaterialsValues \cup {Absent} :
       object_data' = Body(obj, mat)
  /\ upstream' \in {u \in Upstreams : u.upload_ok}
  /\ UNCHANGED << fs, temp_file, temp_path, gemini_file, prompt, response,
                  e, result, calls >>

\* AnalyzeValidate that does not stop the request when a key is missing
AnalyzeValidate_NotStopping ==
  /\ handler = "analyze" /\ pc = "validate"
  /\ pc' = IF HasRequiredKeys(object_data) THEN "prompt" ELSE "generate"
  /\ UNCHANGED << handler, requests, fs, temp_file, temp_path, object_data,
                  upstream, gemini_file, prompt, response, e, result, calls >>

\* lines 96-98: the required keys, else HTTPException(400) raised inside
\* the try
AnalyzeValidate ==
  /\ handler = "analyze" /\ pc = "validate"
  /\ IF HasRequiredKeys(object_data)
     THEN pc' = "prompt" /\ UNCHANGED e
     ELSE pc' = "except" /\ e' = HTTPException400
  /\ UNCHANGED << handler, requests, fs, temp_file, temp_path, object_data,
                  upstream, gemini_file, prompt, response, result, calls >>

\* lines 100-149: the f-string with object_data["object"] and
\* ", ".join(object_data["materials"])
AnalyzePrompt ==
  /\ handler = "analyze" /\ pc = "prompt"
  /\ LET j == str_join(GetKey(object_data, "materials")) IN
       IF j.ok
       THEN /\ prompt' = [object |-> GetKey(object_data, "object"), materials |-> j.parts]
            /\ pc' = "generate"
            /\ UNCHANGED e
       ELSE /\ e' = Exc("TypeError", "can only join an iterable of str")
            /\ pc' = "except"
            /\ UNCHANGED prompt
  /\ UNCHANGED << handler, requests, fs, temp_file, temp_path, object_data,
                  upstream, gemini_file, response, result, calls >>

\* line 151: model.generate_content(prompt) returns a response or raises
AnalyzeGenerate ==
  /\ handler = "analyze" /\ pc = "generate"
  /\ calls' = Append(calls, Call("generate_content", upstream.generate.has, OnDisk))
  /\ IF upstream.generate.has
     THEN /\ response' = upstream.generate
          /\ pc' = "parse"
          /\ UNCHANGED e
     ELSE /\ e' = GenerateError
          /\ pc' = "except"
          /\ UNCHANGED response
  /\ UNCHANGED << handler, requests, fs, temp_file, temp_path, object_data,
                  upstream, gemini_file, prompt, result >>

\* lines 154-158: parse the text and return, or fall to the outer except
AnalyzeParse ==
  /\ handler = "analyze" /\ pc = "parse"
  /\ LET p == parse_response(response, OnDisk) IN
       /\ calls' = calls \o p.calls
       /\ IF p.exc = NoExc
          THEN result' = p.result /\ pc' = "done" /\ UNCHANGED e
          ELSE e' = p.exc /\ pc' = "except" /\ UNCHANGED result
  /\ UNCHANGED << handler, requests, fs, temp_file, temp_path, object_data,
                  upstream, gemini_file, prompt, response >>

\* lines 160-161: except Exception as e: the 500 response
AnalyzeExcept ==
  /\ handler = "analyze" /\ pc = "except"
  /\ result' = JSONResponse(500, ErrorContent(str(e)))
  /\ pc' = "done"
  /\ UNCHANGED << handler, requests, fs, temp_file, temp_path, object_data,
                  upstream, gemini_file, prompt, response, e, calls >>

\* ------------------------------------------------------------------------
\* The request is over: its locals go away, the disk stays as it is
\* ------------------------------------------------------------------------

Finish ==
  /\ pc = "done"
  /\ handler' = "idle"
  /\ pc' = "idle"
  /\ temp_file' = 0
  /\ temp_path' = 0
  /\ object_data' = JObj(<<>>)
  /\ upstream' = NoUpstream
  /\ gemini_file' = FALSE
  /\ prompt' = NoPrompt
  /\ response' = NoResponse
  /\ e' = NoExc
  /\ result' = NoResult
  /\ calls' = <<>>
  /\ UNCHANGED << requests, fs >>

Next ==
  \/ DetectRequest
  \/ DetectStage
  \/ DetectUpload
  \/ DetectGenerate
  \/ DetectUnlink
  \/ DetectParse
  \/ DetectExcept
  \/ AnalyzeRequest
  \/ AnalyzeValidate
  \/ AnalyzePrompt
  \/ AnalyzeGenerate
  \/ AnalyzeParse
  \/ AnalyzeExcept
  \/ Finish

Spec == Init /\ [][Next]_vars

\* ------------------------------------------------------------------------
\* Vocabulary of the properties
\* ------------------------------------------------------------------------

DetectDone == handler = "detect" /\ pc = "done"

AnalyzeDone == handler = "analyze" /\ pc = "done"

\* the positions in calls of the calls of op
CallsOf(op) == {i \in DOMAIN calls : calls[i].op = op}

FailedCallsOf(op) == {i \in CallsOf(op) : ~calls[i].ok}

UpstreamOps == {"upload_to_gemini", "generate_content"}

\* the upload and the generation were called and succeeded, and the text of
\* the response can be read
UpstreamGaveText ==
  /\ \E i \in CallsOf("upload_to_gemini") : calls[i].ok
  /\ \E i \in CallsOf("generate_content") : calls[i].ok
  /\ response.text_ok

\* the text is JSON: it parses and holds no NaN, which Python reads but
\* JSON does not have
StrictJSON(text) == json_loads(text).ok /\ ~HasNaN(json_loads(text).val)

\* the value is {"object": string, "materials": [string, ...]}
DetectionShape(val) ==
  /\ val.t = "obj"
  /\ {val.v[i][1] : i \in 1..Len(val.v)} = {"object", "materials"}
  /\ GetKey(val, "object").t = "str"
  /\ GetKey(val, "materials").t = "arr"
  /\ \A i \in 1..Len(GetKey(val, "materials").v) :
       GetKey(val, "materials").v[i].t = "str"

\* the body sent is {"error": <string>}
ErrorShape(body) ==
  LET r == json_loads(body) IN
  /\ r.ok
  /\ r.val.t = "obj"
  /\ Len(r.val.v) = 1
  /\ r.val.v[1][1] = "error"
  /\ r.val.v[1][2].t = "str"

\* the response is 200 and its body is the upstream text's JSON value
PassThrough ==
  /\ result.kind = "response"
  /\ result.status = 200
  /\ json_loads(result.body) = json_loads(upstream.generate.text)

\* ------------------------------------------------------------------------
\* C1: every /analyze request whose body lacks 'object' or 'materials' is
\* answered with status 400 and the fixed detail message, not with 500.
\* ------------------------------------------------------------------------

C1_MissingKeysAnswered400 ==
  (AnalyzeDone /\ ~HasRequiredKeys(object_data)) =>
     /\ result.kind = "response"
     /\ result.status = 400
     /\ json_loads(result.body).val = JObj(<< <<"detail", JStr(InvalidInputDetail)>> >>)

\* ------------------------------------------------------------------------
\* C2: in every /detect request, whichever step fails after the upload has
\* been staged, the handler returns 500 with a body {"error": message} and
\* no exception leaves the handler.
\* ------------------------------------------------------------------------

C2_DetectFailureIs500Error ==
  (DetectDone /\ temp_path # 0 /\ \E i \in DOMAIN calls : ~calls[i].ok) =>
     /\ result.kind = "response"
     /\ result.status = 500
     /\ ErrorShape(result.body)

\* ------------------------------------------------------------------------
\* C3: on every exit path of the /detect handler the temporary file is
\* removed exactly once: it is not left on disk, and no deletion is
\* attempted after it has been removed.
\* ------------------------------------------------------------------------

C3_TempFileRemovedExactlyOnce ==
  (DetectDone /\ temp_file # 0) =>
     /\ temp_file \notin fs
     /\ Cardinality({i \in CallsOf("os.unlink") : calls[i].ok}) = 1
     /\ \A i \in CallsOf("os.unlink") : calls[i].onDisk

\* ------------------------------------------------------------------------
\* C4: when os.unlink raises during a /detect request, the request still
\* ends with the response it would have produced otherwise (the 200
\* pass-through, or the 500 {"error": ...} of the original failure) and no
\* exception of the cleanup leaves the handler.
\* ------------------------------------------------------------------------

\* the response of a /detect request whose cleanup does not fail
ResponseWithoutCleanupFailure ==
  IF ~upstream.upload_ok THEN JSONResponse(500, ErrorContent(str(UploadError)))
  ELSE IF ~upstream.generate.has
       THEN JSONResponse(500, ErrorContent(str(GenerateError)))
  ELSE LET p == parse_response(upstream.generate, FALSE) IN
       IF p.exc = NoExc THEN p.result
       ELSE JSONResponse(500, ErrorContent(str(p.exc)))

C4_CleanupFailureNotSurfaced ==
  (DetectDone /\ FailedCallsOf("os.unlink") # {}) =>
     result = ResponseWithoutCleanupFailure

\* ------------------------------------------------------------------------
\* C5: once a /detect request has completed, its temporary file is no
\* longer on disk, both when the request succeeds and when upload_to_gemini
\* or generate_content throws.
\* ------------------------------------------------------------------------

\* the request succeeded, or an upstream call threw
SucceededOrUpstreamThrew ==
  \/ result.kind = "response" /\ result.status = 200
  \/ FailedCallsOf("upload_to_gemini") # {}
  \/ FailedCallsOf("generate_content") # {}

C6_NoUpstreamCallOnMissingKeys ==
  (handler = "analyze" /\ ~HasRequiredKeys(object_data)) =>
     /\ CallsOf("generate_content") = {}
     /\ pc = "done" => (result.kind = "response" /\ result.status # 200)

C6_Witness ==
  /\ AnalyzeDone
  /\ ~HasRequiredKeys(object_data)
  /\ HasKey(object_data, "materials")
  /\ upstream.generate.has
  /\ result.kind = "response"

\* ------------------------------------------------------------------------
\* C7: for every /analyze request whose body has both keys, whatever their
\* values, when the upstream text is valid JSON the response is 200 and its
\* body is the parsed upstream JSON, unchanged.
\* ------------------------------------------------------------------------

\* ", ".join accepts the value: a string, a dict, or a list of strings
JoinableMaterials(val) ==
  \/ val.t \in {"str", "obj"}
  \/ val.t = "arr" /\ \A i \in 1..Len(val.v) : val.v[i].t = "str"

\* C7 as stated
C7_PassThroughWhateverValues ==
  (AnalyzeDone /\ HasRequiredKeys(object_data)
     /\ upstream.generate.has /\ upstream.generate.text_ok
     /\ StrictJSON(upstream.generate.text))
  => PassThrough

\* C7 as amended: the same, for bodies whose 'materials' is a string, an
\* object or an array of strings
C7_PassThroughJoinableMaterials ==
  (AnalyzeDone /\ HasRequiredKeys(object_data)
     /\ JoinableMaterials(GetKey(object_data, "materials"))
     /\ upstream.generate.has /\ upstream.generate.text_ok
     /\ StrictJSON(upstream.generate.text))
  => PassThrough

C7_Witness ==
  /\ AnalyzeDone
  /\ HasRequiredKeys(object_data)
  /\ GetKey(object_data, "object") = JNull
  /\ GetKey(object_data, "materials") = JStr("plastic")
  /\ upstream.generate.text = T_analysis
  /\ CallsOf("JSONResponse") # {}
  /\ PassThrough

\* ------------------------------------------------------------------------
\* C8: for every /detect upload where the upload and the generation succeed
\* and the text does not parse as JSON, the response is 500 with the body
\* {"error": "Invalid JSON format in response"} and nothing of the text.
\* ------------------------------------------------------------------------

C8_NonJSONTextIsFixed500 ==
  (DetectDone /\ UpstreamGaveText /\ ~json_loads(response.text).ok) =>
     /\ result.kind = "response"
     /\ result.status = 500
     /\ json_loads(result.body).val = ErrorContent("Invalid JSON format in response")

\* ------------------------------------------------------------------------
\* C9: for every /detect upload where the upload and the generation succeed
\* and the text is valid JSON of the shape {object, materials}, the response
\* is 200 and its body is that structure, unchanged.
\* ------------------------------------------------------------------------

C9_DetectionPassThrough ==
  (DetectDone /\ UpstreamGaveText
     /\ StrictJSON(response.text)
     /\ DetectionShape(json_loads(response.text).val))
  => PassThrough

\* ------------------------------------------------------------------------
\* C10: a request runs its steps in a fixed order without retry: at most
\* one upload_to_gemini and one generate_content call; in /detect the
\* generation is called only after a successful upload and while the
\* temporary file exists, and the response is parsed only after the file
\* has been deleted; /analyze makes no upload; no upstream call follows a
\* failed upstream call.
\* ------------------------------------------------------------------------

C10_LinearNoRetry ==
  /\ Cardinality(CallsOf("upload_to_gemini")) <= 1
  /\ Cardinality(CallsOf("generate_content")) <= 1
  /\ handler = "analyze" => CallsOf("upload_to_gemini") = {}
  /\ handler = "detect" =>
       /\ \A i \in CallsOf("generate_content") :
            /\ calls[i].onDisk
            /\ \E j \in CallsOf("upload_to_gemini") : j < i /\ calls[j].ok
       /\ \A i \in CallsOf("response.text") \cup CallsOf("json.loads") :
            /\ ~calls[i].onDisk
            /\ \E j \in CallsOf("os.unlink") : j < i /\ calls[j].ok
            /\ \E j \in CallsOf("generate_content") : j < i /\ calls[j].ok
  /\ \A i, j \in DOMAIN calls :
       (i < j /\ calls[i].op \in UpstreamOps /\ ~calls[i].ok)
         => calls[j].op \notin UpstreamOps

C10_Witness ==
  /\ DetectDone
  /\ result.kind = "response"
  /\ result.status = 200
  /\ CallsOf("upload_to_gemini") # {}
  /\ CallsOf("generate_content") # {}
  /\ CallsOf("json.loads") # {}

====
